---- MODULE Spec2Model ----
(***************************************************************************)
(* Model of the return-to-launch mode of the navigator                     *)
(* (src/modules/navigator/rtl.cpp, class RTL).                             *)
(*                                                                         *)
(* Units.  Altitudes and coordinates are small integers (metres, grid      *)
(* cells).  Times are integers counting hundredths of a second, so that    *)
(* DELAY_SIGMA (0.01f s) is 1.  Angles are whole degrees.                   *)
(*                                                                         *)
(* The vehicle status, the global position and the parameter store are     *)
(* owned by other components: every hook draws the snapshot it reads from  *)
(* small sets.  The parameter objects of RTL cache the value                *)
(* read by the last updateParams().                                        *)
(***************************************************************************)
EXTENDS Integers, FiniteSets, Sequences, TLC

VARIABLES
    rtl_state,              \* RTL::_rtl_state
    rtl_start_lock,         \* RTL::_rtl_start_lock
    param_return_alt,       \* RTL::_param_return_alt   (value cached by updateParams)
    param_descend_alt,      \* RTL::_param_descend_alt
    param_land_delay,       \* RTL::_param_land_delay
    mission_item,           \* MissionBlock::_mission_item
    pos_sp_triplet,         \* Navigator::_pos_sp_triplet (previous, current, next)
    can_loiter_at_sp,       \* Navigator::_can_loiter_at_sp
    mission_item_reached,   \* MissionBlock's "target reached" latch
    pos_sp_triplet_updated, \* Navigator::_pos_sp_triplet_updated
    first_run,              \* NavigatorMode::_first_run (the mode is not the active one)
    activation,             \* history: how the running activation entered, whether
                            \*   it has computed a RETURN target, and how many
                            \*   times it has advanced
    last_call               \* history: the hook run by the last step, the state it
                            \*   found, and the vehicle status and position it read

vars == << rtl_state, rtl_start_lock, param_return_alt, param_descend_alt,
           param_land_delay, mission_item, pos_sp_triplet, can_loiter_at_sp,
           mission_item_reached, pos_sp_triplet_updated, first_run,
           activation, last_call >>

-----------------------------------------------------------------------------
(* Bounds of the model *)

MaxAlt == 3
MaxLat == 1
MaxReturnAlt == 3
MaxDescendAlt == 1
MaxLandDelay == 2

Alts == 1..MaxAlt
Lats == 0..MaxLat
Lons == {0}
ReturnAlts == {1, MaxReturnAlt}    \* RTL_RETURN_ALT set low, or set high
DescendAlts == 0..MaxDescendAlt
LandDelays == (0 - MaxLandDelay)..MaxLandDelay

(* What the parameter store can hold when updateParams() reads it. *)
ParamValues ==
    [return_alt : ReturnAlts, descend_alt : DescendAlts, land_delay : LandDelays]

(* Where get_global_position() can place the vehicle. *)
Positions == [lat : Lats, lon : Lons]

-----------------------------------------------------------------------------
(* Program constants *)

DELAY_SIGMA == 1

NAN == 999

RTL_STATE_NONE == "NONE"
RTL_STATE_CLIMB == "CLIMB"
RTL_STATE_RETURN == "RETURN"
RTL_STATE_DESCEND == "DESCEND"
RTL_STATE_LOITER == "LOITER"
RTL_STATE_LAND == "LAND"
RTL_STATE_LANDED == "LANDED"

RTLStates == { RTL_STATE_NONE, RTL_STATE_CLIMB, RTL_STATE_RETURN, RTL_STATE_DESCEND,
               RTL_STATE_LOITER, RTL_STATE_LAND, RTL_STATE_LANDED }

NAV_CMD_IDLE == "NAV_CMD_IDLE"
NAV_CMD_WAYPOINT == "NAV_CMD_WAYPOINT"
NAV_CMD_LOITER_TIME_LIMIT == "NAV_CMD_LOITER_TIME_LIMIT"
NAV_CMD_LOITER_UNLIMITED == "NAV_CMD_LOITER_UNLIMITED"
NAV_CMD_LAND == "NAV_CMD_LAND"

ORIGIN_ONBOARD == "ORIGIN_ONBOARD"

(* get_home_position(): the home position does not move during a flight. *)
home_position == [lat |-> 0, lon |-> 0, alt |-> 1, yaw |-> 30]

-----------------------------------------------------------------------------
(* Collaborators of the navigator library used by RTL *)

(* get_bearing_to_next_waypoint(lat_now, lon_now, lat_next, lon_next): the  *)
(* compass direction from the first point to the second, in degrees in      *)
(* (-180, 180]; on the grid every direction is a multiple of 45.            *)
get_bearing_to_next_waypoint(lat_now, lon_now, lat_next, lon_next) ==
    LET d_lat == lat_next - lat_now
        d_lon == lon_next - lon_now
    IN  IF d_lat > 0 THEN (IF d_lon > 0 THEN 45 ELSE IF d_lon < 0 THEN 0 - 45 ELSE 0)
        ELSE IF d_lat < 0
             THEN (IF d_lon > 0 THEN 135 ELSE IF d_lon < 0 THEN 0 - 135 ELSE 180)
        ELSE (IF d_lon > 0 THEN 90 ELSE IF d_lon < 0 THEN 0 - 90 ELSE 0)

(* A zero-initialised position setpoint. *)
EmptySetpoint ==
    [valid |-> FALSE, lat |-> 0, lon |-> 0, alt |-> 0, yaw |-> 0, type |-> "POSITION"]

(* A zero-initialised mission item. *)
EmptyItem ==
    [lat |-> 0, lon |-> 0, altitude_is_relative |-> FALSE, altitude |-> 0, yaw |-> 0,
     loiter_direction |-> 0, nav_cmd |-> NAV_CMD_IDLE, time_inside |-> 0,
     pitch_min |-> 0, autocontinue |-> FALSE, origin |-> "ORIGIN_MAVLINK"]

(* MissionBlock::mission_item_to_position_setpoint(item, sp) *)
mission_item_to_position_setpoint(item, sp) ==
    [sp EXCEPT
        !.valid = TRUE,
        !.lat = item.lat,
        !.lon = item.lon,
        !.alt = IF item.altitude_is_relative
                THEN item.altitude + home_position.alt ELSE item.altitude,
        !.yaw = item.yaw,
        !.type = IF item.nav_cmd = NAV_CMD_IDLE THEN "IDLE"
                 ELSE IF item.nav_cmd = NAV_CMD_LAND THEN "LAND"
                 ELSE IF item.nav_cmd \in {NAV_CMD_LOITER_TIME_LIMIT,
                                           NAV_CMD_LOITER_UNLIMITED} THEN "LOITER"
                 ELSE "POSITION"]

(* MissionBlock::set_previous_pos_setpoint(): the outstanding current       *)
(* setpoint, when valid, becomes the previous one.                          *)
set_previous_pos_setpoint(triplet) ==
    IF triplet.current.valid
    THEN [triplet EXCEPT !.previous = triplet.current]
    ELSE triplet

(* MissionBlock::set_land_item(item, at_current_location = false) *)
set_land_item(item) ==
    [item EXCEPT
        !.nav_cmd = NAV_CMD_LAND,
        !.lat = home_position.lat,
        !.lon = home_position.lon,
        !.altitude = home_position.alt,
        !.altitude_is_relative = FALSE,
        !.yaw = NAN,
        !.loiter_direction = 1,
        !.time_inside = 0,
        !.pitch_min = 0,
        !.autocontinue = TRUE,
        !.origin = ORIGIN_ONBOARD]

(* MissionBlock::set_idle_item(item) *)
set_idle_item(item) ==
    [item EXCEPT
        !.nav_cmd = NAV_CMD_IDLE,
        !.lat = home_position.lat,
        !.lon = home_position.lon,
        !.altitude = home_position.alt,
        !.altitude_is_relative = FALSE,
        !.yaw = NAN,
        !.loiter_direction = 1,
        !.time_inside = 0,
        !.pitch_min = 0,
        !.autocontinue = TRUE,
        !.origin = ORIGIN_ONBOARD]

-----------------------------------------------------------------------------
(* RTL::set_rtl_item(), one operator per case of its switch *)

climb_item(item, gp, return_alt) ==
    LET climb_alt == home_position.alt + return_alt
    IN  [item EXCEPT
            !.lat = gp.lat,
            !.lon = gp.lon,
            !.altitude_is_relative = FALSE,
            !.altitude = climb_alt,
            !.yaw = NAN,
            !.loiter_direction = 1,
            !.nav_cmd = NAV_CMD_WAYPOINT,
            !.time_inside = 0,
            !.pitch_min = 0,
            !.autocontinue = TRUE,
            !.origin = ORIGIN_ONBOARD]

(* The RETURN case also writing the altitude: home altitude. *)
return_item_home_alt(item, previous, gp) ==
    [item EXCEPT
        !.lat = home_position.lat,
        !.lon = home_position.lon,
        !.altitude = home_position.alt,
        !.yaw = IF previous.valid
                THEN get_bearing_to_next_waypoint(previous.lat, previous.lon,
                                                  home_position.lat, home_position.lon)
                ELSE get_bearing_to_next_waypoint(gp.lat, gp.lon,
                                                  home_position.lat, home_position.lon),
        !.loiter_direction = 1,
        !.nav_cmd = NAV_CMD_WAYPOINT,
        !.time_inside = 0,
        !.pitch_min = 0,
        !.autocontinue = TRUE,
        !.origin = ORIGIN_ONBOARD]

return_item(item, previous, gp) ==
    [item EXCEPT
        !.lat = home_position.lat,
        !.lon = home_position.lon,
        !.yaw = IF previous.valid
                THEN get_bearing_to_next_waypoint(previous.lat, previous.lon,
                                                  home_position.lat, home_position.lon)
                ELSE get_bearing_to_next_waypoint(gp.lat, gp.lon,
                                                  home_position.lat, home_position.lon),
        !.loiter_direction = 1,
        !.nav_cmd = NAV_CMD_WAYPOINT,
        !.time_inside = 0,
        !.pitch_min = 0,
        !.autocontinue = TRUE,
        !.origin = ORIGIN_ONBOARD]

descend_item(item, descend_alt) ==
    [item EXCEPT
        !.lat = home_position.lat,
        !.lon = home_position.lon,
        !.altitude_is_relative = FALSE,
        !.altitude = home_position.alt + descend_alt,
        !.yaw = home_position.yaw,
        !.loiter_direction = 1,
        !.nav_cmd = NAV_CMD_LOITER_TIME_LIMIT,
        !.time_inside = 0,
        !.pitch_min = 0,
        !.autocontinue = FALSE,
        !.origin = ORIGIN_ONBOARD]

(* The LOITER case with autoland decided against +DELAY_SIGMA. *)
loiter_item_autoland_sign(item, descend_alt, land_delay) ==
    LET autoland == land_delay > DELAY_SIGMA
    IN  [item EXCEPT
            !.lat = home_position.lat,
            !.lon = home_position.lon,
            !.altitude_is_relative = FALSE,
            !.altitude = home_position.alt + descend_alt,
            !.yaw = home_position.yaw,
            !.loiter_direction = 1,
            !.nav_cmd = IF autoland THEN NAV_CMD_LOITER_TIME_LIMIT
                        ELSE NAV_CMD_LOITER_UNLIMITED,
            !.time_inside = IF land_delay < 0 THEN 0 ELSE land_delay,
            !.pitch_min = 0,
            !.autocontinue = autoland,
            !.origin = ORIGIN_ONBOARD]

loiter_item(item, descend_alt, land_delay) ==
    LET autoland == land_delay > 0 - DELAY_SIGMA
    IN  [item EXCEPT
            !.lat = home_position.lat,
            !.lon = home_position.lon,
            !.altitude_is_relative = FALSE,
            !.altitude = home_position.alt + descend_alt,
            !.yaw = home_position.yaw,
            !.loiter_direction = 1,
            !.nav_cmd = IF autoland THEN NAV_CMD_LOITER_TIME_LIMIT
                        ELSE NAV_CMD_LOITER_UNLIMITED,
            !.time_inside = IF land_delay < 0 THEN 0 ELSE land_delay,
            !.pitch_min = 0,
            !.autocontinue = autoland,
            !.origin = ORIGIN_ONBOARD]

(* The mission item left by the switch of set_rtl_item(). *)
rtl_item(state, item, previous, gp, p) ==
    CASE state = RTL_STATE_CLIMB   -> climb_item(item, gp, p.return_alt)
      [] state = RTL_STATE_RETURN  -> return_item(item, previous, gp)
      [] state = RTL_STATE_DESCEND -> descend_item(item, p.descend_alt)
      [] state = RTL_STATE_LOITER  -> loiter_item(item, p.descend_alt, p.land_delay)
      [] state = RTL_STATE_LAND    -> set_land_item(item)
      [] state = RTL_STATE_LANDED  -> set_idle_item(item)
      [] OTHER                     -> item

(* _rtl_start_lock after set_rtl_item(): set by the RETURN case only. *)
start_lock_after(state, lock) ==
    IF state = RTL_STATE_RETURN THEN TRUE ELSE lock

(* The loiter permission with the LOITER case not granting it. *)
can_loiter_after_never(state) ==
    FALSE

(* The loiter permission after set_rtl_item(): cleared, then granted by the *)
(* LOITER case only.                                                        *)
can_loiter_after(state) ==
    state = RTL_STATE_LOITER

(* set_rtl_item() without the statement that invalidates the next setpoint. *)
set_rtl_item_keep_next(state, lock, item, gp, p) ==
    LET triplet == IF ~lock THEN set_previous_pos_setpoint(pos_sp_triplet)
                   ELSE pos_sp_triplet
        new_item == rtl_item(state, item, triplet.previous, gp, p)
    IN  /\ param_return_alt' = p.return_alt
        /\ param_descend_alt' = p.descend_alt
        /\ param_land_delay' = p.land_delay
        /\ can_loiter_at_sp' = can_loiter_after(state)
        /\ mission_item' = new_item
        /\ rtl_start_lock' = start_lock_after(state, lock)
        /\ mission_item_reached' = FALSE
        /\ pos_sp_triplet' =
              [previous |-> triplet.previous,
               current |-> mission_item_to_position_setpoint(new_item, triplet.current),
               next |-> triplet.next]
        /\ pos_sp_triplet_updated' = TRUE

(* set_rtl_item() capturing the previous setpoint whatever the start lock   *)
(* is.                                                                      *)
set_rtl_item_always_capture(state, lock, item, gp, p) ==
    LET triplet == set_previous_pos_setpoint(pos_sp_triplet)
        new_item == rtl_item(state, item, triplet.previous, gp, p)
    IN  /\ param_return_alt' = p.return_alt
        /\ param_descend_alt' = p.descend_alt
        /\ param_land_delay' = p.land_delay
        /\ can_loiter_at_sp' = can_loiter_after(state)
        /\ mission_item' = new_item
        /\ rtl_start_lock' = start_lock_after(state, lock)
        /\ mission_item_reached' = FALSE
        /\ pos_sp_triplet' =
              [previous |-> triplet.previous,
               current |-> mission_item_to_position_setpoint(new_item, triplet.current),
               next |-> [triplet.next EXCEPT !.valid = FALSE]]
        /\ pos_sp_triplet_updated' = TRUE

(* set_rtl_item() calling updateParams() after the switch: the item is      *)
(* computed from the values cached before.                                  *)
set_rtl_item_stale_params(state, lock, item, gp, p) ==
    LET triplet == IF ~lock THEN set_previous_pos_setpoint(pos_sp_triplet)
                   ELSE pos_sp_triplet
        cached == [return_alt |-> param_return_alt, descend_alt |-> param_descend_alt,
                   land_delay |-> param_land_delay]
        new_item == rtl_item(state, item, triplet.previous, gp, cached)
    IN  /\ param_return_alt' = p.return_alt
        /\ param_descend_alt' = p.descend_alt
        /\ param_land_delay' = p.land_delay
        /\ can_loiter_at_sp' = can_loiter_after(state)
        /\ mission_item' = new_item
        /\ rtl_start_lock' = start_lock_after(state, lock)
        /\ mission_item_reached' = FALSE
        /\ pos_sp_triplet' =
              [previous |-> triplet.previous,
               current |-> mission_item_to_position_setpoint(new_item, triplet.current),
               next |-> [triplet.next EXCEPT !.valid = FALSE]]
        /\ pos_sp_triplet_updated' = TRUE

(* RTL::set_rtl_item() run with _rtl_state = state, _rtl_start_lock = lock   *)
(* and _mission_item = item, reading the global position gp and the          *)
(* parameter store p.                                                        *)
set_rtl_item(state, lock, item, gp, p) ==
    LET triplet == IF ~lock THEN set_previous_pos_setpoint(pos_sp_triplet)
                   ELSE pos_sp_triplet
        new_item == rtl_item(state, item, triplet.previous, gp, p)
    IN  /\ param_return_alt' = p.return_alt
        /\ param_descend_alt' = p.descend_alt
        /\ param_land_delay' = p.land_delay
        /\ can_loiter_at_sp' = can_loiter_after(state)
        /\ mission_item' = new_item
        /\ rtl_start_lock' = start_lock_after(state, lock)
        /\ mission_item_reached' = FALSE
        /\ pos_sp_triplet' =
              [previous |-> triplet.previous,
               current |-> mission_item_to_position_setpoint(new_item, triplet.current),
               next |-> [triplet.next EXCEPT !.valid = FALSE]]
        /\ pos_sp_triplet_updated' = TRUE

-----------------------------------------------------------------------------
(* advance_rtl() with the LOITER case sending the vehicle back to DESCEND. *)
advance_rtl_regress(state, land_delay) ==
    CASE state = RTL_STATE_CLIMB   -> RTL_STATE_RETURN
      [] state = RTL_STATE_RETURN  -> RTL_STATE_DESCEND
      [] state = RTL_STATE_DESCEND ->
            IF land_delay < 0 - DELAY_SIGMA \/ land_delay > DELAY_SIGMA
            THEN RTL_STATE_LOITER
            ELSE RTL_STATE_LAND
      [] state = RTL_STATE_LOITER  -> RTL_STATE_DESCEND
      [] state = RTL_STATE_LAND    -> RTL_STATE_LANDED
      [] OTHER                     -> state

(* advance_rtl() with the tolerance band of the DESCEND case open: a delay  *)
(* of exactly +/- DELAY_SIGMA loiters.                                      *)
advance_rtl_open_band(state, land_delay) ==
    CASE state = RTL_STATE_CLIMB   -> RTL_STATE_RETURN
      [] state = RTL_STATE_RETURN  -> RTL_STATE_DESCEND
      [] state = RTL_STATE_DESCEND ->
            IF land_delay <= 0 - DELAY_SIGMA \/ land_delay >= DELAY_SIGMA
            THEN RTL_STATE_LOITER
            ELSE RTL_STATE_LAND
      [] state = RTL_STATE_LOITER  -> RTL_STATE_LAND
      [] state = RTL_STATE_LAND    -> RTL_STATE_LANDED
      [] OTHER                     -> state

(* advance_rtl() without the LAND case: LAND is never left. *)
advance_rtl_no_land_case(state, land_delay) ==
    CASE state = RTL_STATE_CLIMB   -> RTL_STATE_RETURN
      [] state = RTL_STATE_RETURN  -> RTL_STATE_DESCEND
      [] state = RTL_STATE_DESCEND ->
            IF land_delay < 0 - DELAY_SIGMA \/ land_delay > DELAY_SIGMA
            THEN RTL_STATE_LOITER
            ELSE RTL_STATE_LAND
      [] state = RTL_STATE_LOITER  -> RTL_STATE_LAND
      [] OTHER                     -> state

(* RTL::advance_rtl(): the state that follows `state`. *)
advance_rtl(state, land_delay) ==
    CASE state = RTL_STATE_CLIMB   -> RTL_STATE_RETURN
      [] state = RTL_STATE_RETURN  -> RTL_STATE_DESCEND
      [] state = RTL_STATE_DESCEND ->
            IF land_delay < 0 - DELAY_SIGMA \/ land_delay > DELAY_SIGMA
            THEN RTL_STATE_LOITER
            ELSE RTL_STATE_LAND
      [] state = RTL_STATE_LOITER  -> RTL_STATE_LAND
      [] state = RTL_STATE_LAND    -> RTL_STATE_LANDED
      [] OTHER                     -> state

(* The entry decision comparing the altitude with <= : a vehicle exactly at *)
(* the return altitude climbs.                                              *)
entry_decision_le(state, lock, item, landed, alt, return_alt) ==
    IF state = RTL_STATE_NONE
    THEN IF landed
         THEN [state |-> RTL_STATE_LANDED, lock |-> lock, item |-> item]
         ELSE IF alt <= home_position.alt + return_alt
         THEN [state |-> RTL_STATE_CLIMB, lock |-> FALSE, item |-> item]
         ELSE [state |-> RTL_STATE_RETURN, lock |-> FALSE,
               item |-> [item EXCEPT !.altitude_is_relative = FALSE,
                                     !.altitude = alt]]
    ELSE [state |-> state, lock |-> lock, item |-> item]

(* The entry decision without the test of the landed flag. *)
entry_decision_no_landed_test(state, lock, item, landed, alt, return_alt) ==
    IF state = RTL_STATE_NONE
    THEN IF alt < home_position.alt + return_alt
         THEN [state |-> RTL_STATE_CLIMB, lock |-> FALSE, item |-> item]
         ELSE [state |-> RTL_STATE_RETURN, lock |-> FALSE,
               item |-> [item EXCEPT !.altitude_is_relative = FALSE,
                                     !.altitude = alt]]
    ELSE [state |-> state, lock |-> lock, item |-> item]

(* The entry decision with the CLIMB branch leaving the start lock alone. *)
entry_decision_keep_lock(state, lock, item, landed, alt, return_alt) ==
    IF state = RTL_STATE_NONE
    THEN IF landed
         THEN [state |-> RTL_STATE_LANDED, lock |-> lock, item |-> item]
         ELSE IF alt < home_position.alt + return_alt
         THEN [state |-> RTL_STATE_CLIMB, lock |-> lock, item |-> item]
         ELSE [state |-> RTL_STATE_RETURN, lock |-> FALSE,
               item |-> [item EXCEPT !.altitude_is_relative = FALSE,
                                     !.altitude = alt]]
    ELSE [state |-> state, lock |-> lock, item |-> item]

(* The entry decision taken on every activation, whatever state is held. *)
entry_decision_always(state, lock, item, landed, alt, return_alt) ==
    IF landed
    THEN [state |-> RTL_STATE_LANDED, lock |-> lock, item |-> item]
    ELSE IF alt < home_position.alt + return_alt
    THEN [state |-> RTL_STATE_CLIMB, lock |-> FALSE, item |-> item]
    ELSE [state |-> RTL_STATE_RETURN, lock |-> FALSE,
          item |-> [item EXCEPT !.altitude_is_relative = FALSE,
                                !.altitude = alt]]

(* The entry decision with the RETURN branch leaving altitude_is_relative   *)
(* as it finds it.                                                          *)
entry_decision_keep_relative(state, lock, item, landed, alt, return_alt) ==
    IF state = RTL_STATE_NONE
    THEN IF landed
         THEN [state |-> RTL_STATE_LANDED, lock |-> lock, item |-> item]
         ELSE IF alt < home_position.alt + return_alt
         THEN [state |-> RTL_STATE_CLIMB, lock |-> FALSE, item |-> item]
         ELSE [state |-> RTL_STATE_RETURN, lock |-> FALSE,
               item |-> [item EXCEPT !.altitude = alt]]
    ELSE [state |-> state, lock |-> lock, item |-> item]

(* The entry decision with the landed branch not assigning the state. *)
entry_decision_landed_unassigned(state, lock, item, landed, alt, return_alt) ==
    IF state = RTL_STATE_NONE
    THEN IF landed
         THEN [state |-> state, lock |-> lock, item |-> item]
         ELSE IF alt < home_position.alt + return_alt
         THEN [state |-> RTL_STATE_CLIMB, lock |-> FALSE, item |-> item]
         ELSE [state |-> RTL_STATE_RETURN, lock |-> FALSE,
               item |-> [item EXCEPT !.altitude_is_relative = FALSE,
                                     !.altitude = alt]]
    ELSE [state |-> state, lock |-> lock, item |-> item]

(* The entry decision of RTL::on_activation(): state, start lock and        *)
(* mission item before set_rtl_item() is called.                            *)
entry_decision(state, lock, item, landed, alt, return_alt) ==
    IF state = RTL_STATE_NONE
    THEN IF landed
         THEN [state |-> RTL_STATE_LANDED, lock |-> lock, item |-> item]
         ELSE IF alt < home_position.alt + return_alt
         THEN [state |-> RTL_STATE_CLIMB, lock |-> FALSE, item |-> item]
         ELSE [state |-> RTL_STATE_RETURN, lock |-> FALSE,
               item |-> [item EXCEPT !.altitude_is_relative = FALSE,
                                     !.altitude = alt]]
    ELSE [state |-> state, lock |-> lock, item |-> item]

(* The test of on_active() without the call of is_mission_item_reached(). *)
must_advance_unreached(state, reached) ==
    state # RTL_STATE_LANDED

(* The test of RTL::on_active(). *)
must_advance(state, reached) ==
    state # RTL_STATE_LANDED /\ reached

(* The test of on_inactive() dropped: the state is reset on every call. *)
must_reset_always(can_loiter) ==
    TRUE

(* The test of RTL::on_inactive(). *)
must_reset(can_loiter) ==
    ~can_loiter

-----------------------------------------------------------------------------
(* The inputs a hook reads.  on_activation() reads the altitude in its     *)
(* entry decision, when the vehicle is not landed; set_rtl_item() reads the *)
(* vehicle's position in the CLIMB case, and in the RETURN case when the    *)
(* triplet holds no valid previous setpoint.  An input that is not read is  *)
(* not drawn.                                                               *)
NoPosition == [lat |-> 0, lon |-> 0]

AltsRead(state, landed) ==
    IF state = RTL_STATE_NONE /\ ~landed THEN Alts ELSE {0}

PositionsRead(state, lock) ==
    LET triplet == IF ~lock THEN set_previous_pos_setpoint(pos_sp_triplet)
                   ELSE pos_sp_triplet
    IN  IF \/ state = RTL_STATE_CLIMB
           \/ state = RTL_STATE_RETURN /\ ~triplet.previous.valid
        THEN Positions
        ELSE {NoPosition}

NoActivation == [entry |-> RTL_STATE_NONE, return_item_set |-> FALSE, advances |-> 0]

NoCall == [hook |-> "none", from |-> RTL_STATE_NONE, landed |-> FALSE, alt |-> 0,
           pos |-> NoPosition]

(* State after RTL::RTL(): updateParams() has loaded the parameters and     *)
(* on_inactive() has run.  The constructor leaves _mission_item as          *)
(* MissionBlock made it; its altitude_is_relative flag is either value.     *)
Init ==
    /\ rtl_state = RTL_STATE_NONE
    /\ rtl_start_lock = FALSE
    /\ \E p \in ParamValues :
          /\ param_return_alt = p.return_alt
          /\ param_descend_alt = p.descend_alt
          /\ param_land_delay = p.land_delay
    /\ \E relative \in BOOLEAN :
          mission_item = [EmptyItem EXCEPT !.altitude_is_relative = relative]
    /\ pos_sp_triplet = [previous |-> EmptySetpoint, current |-> EmptySetpoint,
                         next |-> EmptySetpoint]
    /\ can_loiter_at_sp = FALSE
    /\ mission_item_reached = FALSE
    /\ pos_sp_triplet_updated = FALSE
    /\ first_run = TRUE
    /\ activation = NoActivation
    /\ last_call = NoCall

(* RTL::on_inactive(), called by NavigatorMode::run(false). *)
on_inactive ==
    /\ ~pos_sp_triplet_updated
    /\ rtl_state' = IF must_reset(can_loiter_at_sp) THEN RTL_STATE_NONE ELSE rtl_state
    /\ activation' = IF rtl_state' = RTL_STATE_NONE THEN NoActivation ELSE activation
    /\ first_run' = TRUE
    /\ last_call' = [NoCall EXCEPT !.hook = "on_inactive"]
    /\ UNCHANGED << rtl_start_lock, param_return_alt, param_descend_alt,
                    param_land_delay, mission_item, pos_sp_triplet, can_loiter_at_sp,
                    mission_item_reached, pos_sp_triplet_updated >>

(* RTL::on_activation(), called by NavigatorMode::run(true) on the first     *)
(* cycle the mode is active.                                                *)
on_activation ==
    /\ first_run
    /\ ~pos_sp_triplet_updated
    /\ \E landed \in BOOLEAN :
       \E alt \in AltsRead(rtl_state, landed) :
          LET d == entry_decision(rtl_state, rtl_start_lock, mission_item,
                                  landed, alt, param_return_alt)
              fresh == rtl_state = RTL_STATE_NONE
          IN  /\ rtl_state' = d.state
              /\ \E gp \in PositionsRead(d.state, d.lock), p \in ParamValues :
                    /\ set_rtl_item(d.state, d.lock, d.item, gp, p)
                    /\ last_call' = [hook |-> "on_activation", from |-> rtl_state,
                                     landed |-> landed, alt |-> alt, pos |-> gp]
              /\ activation' =
                    [entry |-> IF fresh THEN d.state ELSE activation.entry,
                     return_item_set |->
                        IF d.state = RTL_STATE_RETURN THEN TRUE
                        ELSE IF fresh THEN FALSE ELSE activation.return_item_set,
                     advances |-> IF fresh THEN 0 ELSE activation.advances]
    /\ first_run' = FALSE

(* RTL::on_active(), called by NavigatorMode::run(true) on every later cycle. *)
on_active ==
    /\ ~first_run
    /\ ~pos_sp_triplet_updated
    /\ IF must_advance(rtl_state, mission_item_reached)
       THEN LET next_state == advance_rtl(rtl_state, param_land_delay)
            IN  /\ rtl_state' = next_state
                /\ \E gp \in PositionsRead(next_state, rtl_start_lock),
                      p \in ParamValues :
                      /\ set_rtl_item(next_state, rtl_start_lock, mission_item, gp, p)
                      /\ last_call' = [NoCall EXCEPT !.hook = "on_active",
                                                     !.from = rtl_state, !.pos = gp]
                /\ activation' =
                      [activation EXCEPT
                          !.return_item_set =
                              IF next_state = RTL_STATE_RETURN THEN TRUE ELSE @,
                          !.advances = @ + 1]
       ELSE /\ UNCHANGED << rtl_state, rtl_start_lock, param_return_alt,
                            param_descend_alt, param_land_delay, mission_item,
                            pos_sp_triplet, can_loiter_at_sp, mission_item_reached,
                            pos_sp_triplet_updated, activation >>
            /\ last_call' = [NoCall EXCEPT !.hook = "on_active", !.from = rtl_state]
    /\ UNCHANGED first_run

-----------------------------------------------------------------------------
(* The rest of the navigator, as far as RTL reads what it writes *)

(* What another navigation mode leaves in the triplet: nothing            *)
(* (Navigator::reset_triplet()), or a leg of a mission away from home.      *)
OtherSetpoint ==
    [valid |-> TRUE, lat |-> MaxLat, lon |-> 0, alt |-> 0, yaw |-> 0, type |-> "POSITION"]

OtherTriplets ==
    { [previous |-> EmptySetpoint, current |-> EmptySetpoint, next |-> EmptySetpoint],
      [previous |-> OtherSetpoint, current |-> OtherSetpoint, next |-> OtherSetpoint] }

(* The vehicle arrives at the target of the mission item and stays for the  *)
(* time the item asks for: MissionBlock::is_mission_item_reached() reports  *)
(* the target reached from now on.  It is evaluated by                      *)
(* on_active() only.                                                        *)
target_reached ==
    /\ ~first_run
    /\ ~pos_sp_triplet_updated
    /\ ~mission_item_reached
    /\ mission_item_reached' = TRUE
    /\ last_call' = NoCall
    /\ UNCHANGED << rtl_state, rtl_start_lock, param_return_alt, param_descend_alt,
                    param_land_delay, mission_item, pos_sp_triplet, can_loiter_at_sp,
                    pos_sp_triplet_updated, first_run, activation >>

(* Navigator::set_can_loiter_at_sp(), called by the mode that takes over    *)
(* from RTL or by the navigator's main loop, in the cycle of the switch,    *)
(* before on_inactive() runs.                                               *)
set_can_loiter_at_sp ==
    /\ ~first_run
    /\ ~pos_sp_triplet_updated
    /\ \E c \in BOOLEAN : can_loiter_at_sp' = c
    /\ can_loiter_at_sp' # can_loiter_at_sp
    /\ last_call' = NoCall
    /\ UNCHANGED << rtl_state, rtl_start_lock, param_return_alt, param_descend_alt,
                    param_land_delay, mission_item, pos_sp_triplet,
                    mission_item_reached, pos_sp_triplet_updated, first_run,
                    activation >>

(* A cycle of the navigator in which another navigation mode is active:    *)
(* the mode writes its own setpoints and the main loop publishes them.      *)
other_mode_setpoint ==
    /\ first_run
    /\ ~pos_sp_triplet_updated
    /\ \E triplet \in OtherTriplets : pos_sp_triplet' = triplet
    /\ pos_sp_triplet' # pos_sp_triplet
    /\ last_call' = NoCall
    /\ UNCHANGED << rtl_state, rtl_start_lock, param_return_alt, param_descend_alt,
                    param_land_delay, mission_item, can_loiter_at_sp,
                    mission_item_reached, pos_sp_triplet_updated, first_run,
                    activation >>

(* The navigator's main loop publishes the triplet and clears the flag. *)
publish_position_setpoint_triplet ==
    /\ pos_sp_triplet_updated
    /\ pos_sp_triplet_updated' = FALSE
    /\ last_call' = NoCall
    /\ UNCHANGED << rtl_state, rtl_start_lock, param_return_alt, param_descend_alt,
                    param_land_delay, mission_item, pos_sp_triplet, can_loiter_at_sp,
                    mission_item_reached, first_run, activation >>

-----------------------------------------------------------------------------
Next ==
    \/ on_inactive
    \/ on_activation
    \/ on_active
    \/ target_reached
    \/ set_can_loiter_at_sp
    \/ other_mode_setpoint
    \/ publish_position_setpoint_triplet

Spec == Init /\ [][Next]_vars

(* The navigator's loop keeps running: while RTL is the active mode         *)
(* on_active() is called every cycle, a triplet flagged as updated is       *)
(* published, and the vehicle reaches every target it is given.             *)
LiveSpec ==
    /\ Spec
    /\ WF_vars(on_active)
    /\ WF_vars(publish_position_setpoint_triplet)
    /\ WF_vars(target_reached)

-----------------------------------------------------------------------------
(* Properties *)

(* The position of a state in the RTL procedure. *)
PhaseRank(state) ==
    CASE state = RTL_STATE_NONE    -> 0
      [] state = RTL_STATE_CLIMB   -> 1
      [] state = RTL_STATE_RETURN  -> 2
      [] state = RTL_STATE_DESCEND -> 3
      [] state = RTL_STATE_LOITER  -> 4
      [] state = RTL_STATE_LAND    -> 5
      [] state = RTL_STATE_LANDED  -> 6

AllowedAdvance ==
    { <<RTL_STATE_CLIMB, RTL_STATE_RETURN>>, <<RTL_STATE_RETURN, RTL_STATE_DESCEND>>,
      <<RTL_STATE_DESCEND, RTL_STATE_LOITER>>, <<RTL_STATE_DESCEND, RTL_STATE_LAND>>,
      <<RTL_STATE_LOITER, RTL_STATE_LAND>>, <<RTL_STATE_LAND, RTL_STATE_LANDED>> }

(* land_delay lies in the closed band [-DELAY_SIGMA, +DELAY_SIGMA]. *)
NearZero(land_delay) ==
    land_delay >= 0 - DELAY_SIGMA /\ land_delay <= DELAY_SIGMA

(* The step is a call of the hook. *)
Called(hook) == last_call'.hook = hook

(* The step is a call of on_activation() that finds _rtl_state = NONE. *)
FreshActivation == Called("on_activation") /\ rtl_state = RTL_STATE_NONE

(* C1: while an activation lasts (from a fresh activation until on_inactive *)
(* resets the state to NONE) every change of the state is one of            *)
(* CLIMB->RETURN, RETURN->DESCEND, DESCEND->LOITER, DESCEND->LAND,          *)
(* LOITER->LAND, LAND->LANDED: the state only moves forward and no state is *)
(* entered twice, whatever hooks are called with whatever inputs.           *)
C1_PhaseSequence ==
    [][ (rtl_state # RTL_STATE_NONE /\ rtl_state' # RTL_STATE_NONE
         /\ rtl_state' # rtl_state)
        => /\ <<rtl_state, rtl_state'>> \in AllowedAdvance
           /\ PhaseRank(rtl_state') > PhaseRank(rtl_state) ]_vars

(* An activation that entered at CLIMB has gone all the way to LANDED. *)
C1_Witness ==
    /\ rtl_state = RTL_STATE_LANDED
    /\ last_call.hook = "on_active"
    /\ last_call.from = RTL_STATE_LAND
    /\ activation.entry = RTL_STATE_CLIMB
    /\ activation.return_item_set

(* C2: a fresh activation of a vehicle that is not landed enters CLIMB when *)
(* its altitude is below home altitude + return altitude (the value of      *)
(* RTL_RETURN_ALT that RTL holds when the decision is taken) and RETURN     *)
(* otherwise; in RETURN the mission item's altitude is the vehicle's        *)
(* altitude, absolute.                                                      *)
C2_EntryByAltitude ==
    [][ (FreshActivation /\ ~last_call'.landed)
        => IF last_call'.alt < home_position.alt + param_return_alt
           THEN rtl_state' = RTL_STATE_CLIMB
           ELSE /\ rtl_state' = RTL_STATE_RETURN
                /\ mission_item'.altitude = last_call'.alt
                /\ ~mission_item'.altitude_is_relative ]_vars

(* A fresh activation at the highest altitude entered RETURN at that        *)
(* altitude.                                                                *)
C2_Witness ==
    /\ last_call.hook = "on_activation"
    /\ last_call.from = RTL_STATE_NONE
    /\ ~last_call.landed
    /\ last_call.alt = MaxAlt
    /\ rtl_state = RTL_STATE_RETURN
    /\ mission_item.altitude = MaxAlt

(* The mission item and the current setpoint ask for no motion. *)
IdleTarget ==
    /\ mission_item.nav_cmd = NAV_CMD_IDLE
    /\ pos_sp_triplet.current.type = "IDLE"

(* C3, as claimed: every call of on_activation() made while the vehicle is  *)
(* landed ends in LANDED with the idle item as target, whatever state was   *)
(* held before the call.                                                    *)
C3_LandedAlwaysLanded ==
    (last_call.hook = "on_activation" /\ last_call.landed)
        => (rtl_state = RTL_STATE_LANDED /\ IdleTarget)

(* C3, amended: a call of on_activation() that finds _rtl_state = NONE      *)
(* while the vehicle is landed ends in LANDED with the idle item as target; *)
(* a call that finds another state keeps that state.                        *)
C3_FreshLandedIsLanded ==
    (last_call.hook = "on_activation" /\ last_call.landed)
        => IF last_call.from = RTL_STATE_NONE
           THEN rtl_state = RTL_STATE_LANDED /\ IdleTarget
           ELSE rtl_state = last_call.from

(* A fresh activation of a landed vehicle. *)
C3_Witness ==
    /\ last_call.hook = "on_activation"
    /\ last_call.landed
    /\ last_call.from = RTL_STATE_NONE
    /\ rtl_state = RTL_STATE_LANDED

(* C4: when on_active() advances out of DESCEND the next state is LAND if   *)
(* the land delay RTL holds lies in [-DELAY_SIGMA, +DELAY_SIGMA] and LOITER *)
(* if it lies outside.                                                      *)
C4_DescendAdvance ==
    [][ (Called("on_active") /\ rtl_state = RTL_STATE_DESCEND
         /\ rtl_state' # RTL_STATE_DESCEND)
        => IF NearZero(param_land_delay)
           THEN rtl_state' = RTL_STATE_LAND
           ELSE rtl_state' = RTL_STATE_LOITER ]_vars

(* on_active() went from DESCEND straight to LAND. *)
C4_Witness ==
    /\ last_call.hook = "on_active"
    /\ last_call.from = RTL_STATE_DESCEND
    /\ rtl_state = RTL_STATE_LAND

(* C5: the LOITER target follows the land delay read when it is computed:   *)
(* above +DELAY_SIGMA a timed loiter that continues after land_delay;       *)
(* below -DELAY_SIGMA an unlimited loiter that does not continue, with time *)
(* 0; in general autocontinue = (land_delay > -DELAY_SIGMA) and             *)
(* time_inside = max(0, land_delay).                                        *)
C5_LoiterItem ==
    rtl_state = RTL_STATE_LOITER
        => /\ param_land_delay > DELAY_SIGMA
                => /\ mission_item.nav_cmd = NAV_CMD_LOITER_TIME_LIMIT
                   /\ mission_item.autocontinue
                   /\ mission_item.time_inside = param_land_delay
           /\ param_land_delay < 0 - DELAY_SIGMA
                => /\ mission_item.nav_cmd = NAV_CMD_LOITER_UNLIMITED
                   /\ ~mission_item.autocontinue
                   /\ mission_item.time_inside = 0
           /\ mission_item.autocontinue = (param_land_delay > 0 - DELAY_SIGMA)
           /\ mission_item.time_inside =
                 (IF param_land_delay > 0 THEN param_land_delay ELSE 0)

(* on_active() has computed a LOITER target for a delay above the band. *)
C5_Witness ==
    /\ last_call.hook = "on_active"
    /\ rtl_state = RTL_STATE_LOITER
    /\ param_land_delay > DELAY_SIGMA
    /\ mission_item.autocontinue

(* C6, as claimed: in every activation, whichever way it entered, the start *)
(* lock is false until the activation computes a RETURN target and true     *)
(* from then on.                                                            *)
C6_StartLock ==
    rtl_state # RTL_STATE_NONE
        => (rtl_start_lock = activation.return_item_set)

(* C6, amended: in every activation that entered at CLIMB or at RETURN the  *)
(* start lock is false until the activation computes a RETURN target and    *)
(* true from then on.  (An activation that entered at LANDED keeps the lock *)
(* the activation before it left.)                                          *)
C6_StartLockAirborne ==
    (rtl_state # RTL_STATE_NONE /\ activation.entry # RTL_STATE_LANDED)
        => (rtl_start_lock = activation.return_item_set)

(* An activation that entered at CLIMB computes its RETURN target. *)
C6_Witness ==
    /\ activation.entry = RTL_STATE_CLIMB
    /\ last_call.hook = "on_active"
    /\ last_call.from = RTL_STATE_CLIMB
    /\ rtl_state = RTL_STATE_RETURN
    /\ rtl_start_lock

(* C7: on_inactive() keeps the state when the navigator permits loitering   *)
(* at the setpoint and resets it to NONE when it does not; it changes       *)
(* neither the start lock, the mission item, the triplet nor the            *)
(* permission.                                                              *)
C7_OnInactive ==
    [][ Called("on_inactive")
        => /\ rtl_state' = IF can_loiter_at_sp THEN rtl_state ELSE RTL_STATE_NONE
           /\ UNCHANGED << rtl_start_lock, mission_item, pos_sp_triplet,
                           can_loiter_at_sp >> ]_vars

(* on_inactive() has kept a held state. *)
C7_Witness ==
    /\ last_call.hook = "on_inactive"
    /\ can_loiter_at_sp
    /\ rtl_state = RTL_STATE_DESCEND

ItemOfState(state, item) ==
    CASE state \in {RTL_STATE_CLIMB, RTL_STATE_RETURN} -> item.nav_cmd = NAV_CMD_WAYPOINT
      [] state = RTL_STATE_DESCEND -> item.nav_cmd = NAV_CMD_LOITER_TIME_LIMIT
      [] state = RTL_STATE_LOITER  ->
            item.nav_cmd \in {NAV_CMD_LOITER_TIME_LIMIT, NAV_CMD_LOITER_UNLIMITED}
      [] state = RTL_STATE_LAND    -> item.nav_cmd = NAV_CMD_LAND
      [] state = RTL_STATE_LANDED  -> item.nav_cmd = NAV_CMD_IDLE
      [] OTHER                     -> TRUE

(* C9: on_activation() called with a state other than NONE does not take    *)
(* the entry decision again: state and start lock are kept whatever the     *)
(* landed flag is, and the target of the held state is computed anew.       *)
C9_Reactivation ==
    [][ (Called("on_activation") /\ rtl_state # RTL_STATE_NONE)
        => /\ rtl_state' = rtl_state
           /\ rtl_start_lock' = rtl_start_lock
           /\ ItemOfState(rtl_state, mission_item')
           /\ pos_sp_triplet'.current =
                 mission_item_to_position_setpoint(mission_item', pos_sp_triplet.current)
           /\ ~mission_item_reached'
           /\ pos_sp_triplet_updated' ]_vars

(* on_activation() has resumed DESCEND for a landed vehicle. *)
C9_Witness ==
    /\ last_call.hook = "on_activation"
    /\ last_call.from = RTL_STATE_DESCEND
    /\ last_call.landed
    /\ rtl_state = RTL_STATE_DESCEND

(* C10: on_active() does nothing in LANDED, and nothing while the target is *)
(* not reached: state, start lock, mission item, triplet and loiter         *)
(* permission are unchanged.                                                *)
C10_OnActiveNoOp ==
    [][ (Called("on_active")
         /\ (rtl_state = RTL_STATE_LANDED \/ ~mission_item_reached))
        => UNCHANGED << rtl_state, rtl_start_lock, mission_item, pos_sp_triplet,
                        can_loiter_at_sp >> ]_vars

(* on_active() has been called in LANDED with the target reported reached. *)
C10_Witness ==
    /\ last_call.hook = "on_active"
    /\ last_call.from = RTL_STATE_LANDED
    /\ rtl_state = RTL_STATE_LANDED
    /\ mission_item_reached

(* The step is a call of a hook that computes a target: on_activation(), or *)
(* on_active() when it advances.                                            *)
Computes ==
    \/ Called("on_activation")
    \/ Called("on_active") /\ must_advance(rtl_state, mission_item_reached)

(* The last step was such a call. *)
JustComputed ==
    last_call.hook \in {"on_activation", "on_active"} /\ pos_sp_triplet_updated

(* C11: every target computation leaves the next setpoint invalid and the   *)
(* target-reached latch cleared, writes the current setpoint from the       *)
(* mission item, and flags the triplet as updated for the navigator.        *)
C11_AfterComputation ==
    [][ Computes
        => /\ ~pos_sp_triplet'.next.valid
           /\ ~mission_item_reached'
           /\ pos_sp_triplet'.current =
                 mission_item_to_position_setpoint(mission_item', EmptySetpoint)
           /\ pos_sp_triplet'.current.valid
           /\ pos_sp_triplet_updated' ]_vars

(* An activation has invalidated the next setpoint another mode had left. *)
C11_Witness ==
    /\ last_call.hook = "on_activation"
    /\ pos_sp_triplet_updated
    /\ pos_sp_triplet.next = [OtherSetpoint EXCEPT !.valid = FALSE]
    /\ pos_sp_triplet.current.lat = mission_item.lat
    /\ ~mission_item_reached

(* C12: whenever the state is CLIMB, RETURN, DESCEND or LOITER the altitude *)
(* of the mission item is flagged absolute, whichever way the state was     *)
(* reached.                                                                 *)
C12_AltitudeAbsolute ==
    rtl_state \in {RTL_STATE_CLIMB, RTL_STATE_RETURN, RTL_STATE_DESCEND,
                   RTL_STATE_LOITER}
        => ~mission_item.altitude_is_relative

(* A vehicle above the return altitude has entered RETURN directly, at its  *)
(* own altitude.                                                            *)
C12_Witness ==
    /\ last_call.hook = "on_activation"
    /\ last_call.from = RTL_STATE_NONE
    /\ activation.entry = RTL_STATE_RETURN
    /\ rtl_state = RTL_STATE_RETURN
    /\ mission_item.altitude = last_call.alt
    /\ ~mission_item.altitude_is_relative
    /\ pos_sp_triplet.current.alt = last_call.alt

(* C13: computing the RETURN target leaves the altitude of the mission item *)
(* alone.  After CLIMB it is the altitude of the CLIMB target (home         *)
(* altitude + the return altitude read for CLIMB); after a direct entry it  *)
(* is the vehicle's altitude at activation; a resumed RETURN keeps it.  The *)
(* target is at home, and its yaw is the bearing to home from the previous  *)
(* setpoint when that is valid and from the vehicle's position otherwise.   *)
C13_ReturnItem ==
    [][ (Computes /\ rtl_state' = RTL_STATE_RETURN)
        => /\ mission_item'.altitude =
                 (IF FreshActivation THEN last_call'.alt ELSE mission_item.altitude)
           /\ rtl_state = RTL_STATE_CLIMB
                 => mission_item'.altitude = home_position.alt + param_return_alt
           /\ mission_item'.lat = home_position.lat
           /\ mission_item'.lon = home_position.lon
           /\ mission_item'.nav_cmd = NAV_CMD_WAYPOINT
           /\ mission_item'.yaw =
                 (IF pos_sp_triplet'.previous.valid
                  THEN get_bearing_to_next_waypoint(
                          pos_sp_triplet'.previous.lat, pos_sp_triplet'.previous.lon,
                          home_position.lat, home_position.lon)
                  ELSE get_bearing_to_next_waypoint(
                          last_call'.pos.lat, last_call'.pos.lon,
                          home_position.lat, home_position.lon)) ]_vars

(* RETURN has followed CLIMB at the altitude of the CLIMB target, although  *)
(* RTL_RETURN_ALT has been lowered since, heading home from the CLIMB       *)
(* setpoint.                                                                *)
C13_Witness ==
    /\ last_call.hook = "on_active"
    /\ last_call.from = RTL_STATE_CLIMB
    /\ rtl_state = RTL_STATE_RETURN
    /\ mission_item.altitude = home_position.alt + MaxReturnAlt
    /\ param_return_alt < MaxReturnAlt
    /\ pos_sp_triplet.previous.valid
    /\ pos_sp_triplet.previous.lat = MaxLat
    /\ mission_item.yaw = 180

(* RETURN entered directly with no valid setpoint in the triplet: heading   *)
(* home from the vehicle's position.                                        *)
C13_WitnessFromPosition ==
    /\ last_call.hook = "on_activation"
    /\ last_call.from = RTL_STATE_NONE
    /\ rtl_state = RTL_STATE_RETURN
    /\ ~pos_sp_triplet.previous.valid
    /\ last_call.pos.lat = MaxLat
    /\ mission_item.yaw = 180

(* _rtl_start_lock when the set_rtl_item() of the step starts: a fresh      *)
(* activation of a vehicle in the air has just cleared it.                  *)
LockAtStart ==
    IF FreshActivation /\ ~last_call'.landed THEN FALSE ELSE rtl_start_lock

(* C14: a target computation captures the outstanding setpoint as the       *)
(* previous setpoint exactly when the start lock is false as it starts.     *)
(* The computations of CLIMB and of the first RETURN of an activation       *)
(* capture; every computation after that RETURN leaves the previous         *)
(* setpoint alone.                                                          *)
C14_PreviousSetpoint ==
    [][ Computes
        => /\ pos_sp_triplet'.previous =
                 (IF LockAtStart THEN pos_sp_triplet.previous
                  ELSE set_previous_pos_setpoint(pos_sp_triplet).previous)
           /\ (\/ rtl_state' = RTL_STATE_CLIMB
               \/ rtl_state' = RTL_STATE_RETURN /\ ~activation.return_item_set)
                 => ~LockAtStart
           /\ activation.return_item_set
                 => /\ LockAtStart
                    /\ pos_sp_triplet'.previous = pos_sp_triplet.previous ]_vars

(* DESCEND has been computed and the previous setpoint is still the CLIMB   *)
(* setpoint that the computation of RETURN captured.                        *)
C14_Witness ==
    /\ last_call.hook = "on_active"
    /\ last_call.from = RTL_STATE_RETURN
    /\ rtl_state = RTL_STATE_DESCEND
    /\ activation.entry = RTL_STATE_CLIMB
    /\ pos_sp_triplet.previous.valid
    /\ pos_sp_triplet.previous.lat = MaxLat
    /\ pos_sp_triplet.previous.alt = home_position.alt + MaxReturnAlt
    /\ pos_sp_triplet.previous # pos_sp_triplet.current

(* C15: a target computation uses the parameters the store holds when it    *)
(* runs (the values updateParams() has just read).  The CLIMB target is at  *)
(* the vehicle's position, at home altitude + return altitude, a waypoint   *)
(* that continues; the DESCEND and LOITER targets are at home, at home      *)
(* altitude + descend altitude, with the yaw of home; DESCEND is a timed    *)
(* loiter of time 0 that does not continue.                                 *)
C15_FreshParameters ==
    [][ Computes
        => /\ rtl_state' = RTL_STATE_CLIMB
                 => /\ mission_item'.lat = last_call'.pos.lat
                    /\ mission_item'.lon = last_call'.pos.lon
                    /\ mission_item'.altitude = home_position.alt + param_return_alt'
                    /\ mission_item'.nav_cmd = NAV_CMD_WAYPOINT
                    /\ mission_item'.autocontinue
           /\ rtl_state' \in {RTL_STATE_DESCEND, RTL_STATE_LOITER}
                 => /\ mission_item'.lat = home_position.lat
                    /\ mission_item'.lon = home_position.lon
                    /\ mission_item'.altitude = home_position.alt + param_descend_alt'
                    /\ mission_item'.yaw = home_position.yaw
           /\ rtl_state' = RTL_STATE_DESCEND
                 => /\ mission_item'.nav_cmd = NAV_CMD_LOITER_TIME_LIMIT
                    /\ mission_item'.time_inside = 0
                    /\ ~mission_item'.autocontinue ]_vars

(* A vehicle at the highest altitude entered CLIMB, which only the high     *)
(* return altitude loaded earlier allows, and its CLIMB target uses the low *)
(* return altitude the store holds now.                                     *)
C15_Witness ==
    /\ last_call.hook = "on_activation"
    /\ last_call.from = RTL_STATE_NONE
    /\ last_call.alt = MaxAlt
    /\ last_call.pos.lat = MaxLat
    /\ rtl_state = RTL_STATE_CLIMB
    /\ param_return_alt = 1
    /\ mission_item.altitude = home_position.alt + 1
    /\ mission_item.lat = MaxLat

(* C16: whenever the state is LOITER, the land delay its target was         *)
(* computed from lies outside [-DELAY_SIGMA, +DELAY_SIGMA]: no LOITER       *)
(* target is made for a delay near zero, also when RTL_LAND_DELAY changes   *)
(* between cycles or LOITER is resumed by a re-activation.                  *)
C16_LoiterDelayOutsideBand ==
    rtl_state = RTL_STATE_LOITER => ~NearZero(param_land_delay)

(* C17: a fresh activation in the air that enters CLIMB computes a CLIMB    *)
(* target strictly above the vehicle's altitude, also when RTL_RETURN_ALT   *)
(* has changed since the parameters were last loaded.                       *)
C17_ClimbTargetAbove ==
    [][ (FreshActivation /\ ~last_call'.landed /\ rtl_state' = RTL_STATE_CLIMB)
        => mission_item'.altitude > last_call'.alt ]_vars

(* The last step was a fresh activation of a vehicle in the air. *)
AirborneStart ==
    /\ last_call.hook = "on_activation"
    /\ last_call.from = RTL_STATE_NONE
    /\ ~last_call.landed

(* C18: after a fresh activation in the air, with on_active() called every  *)
(* cycle and every target reached in the end, the state becomes LANDED      *)
(* unless another mode takes over first; no activation advances more than   *)
(* five times; and LANDED is only left through the reset of on_inactive().  *)
C18_ReachesLanded ==
    /\ AirborneStart ~> (rtl_state = RTL_STATE_LANDED \/ first_run)
    /\ [](activation.advances <= 5)
    /\ [][ (rtl_state = RTL_STATE_LANDED /\ rtl_state' # RTL_STATE_LANDED)
            => (Called("on_inactive") /\ rtl_state' = RTL_STATE_NONE) ]_vars

(* An activation that entered at CLIMB has landed after five advances. *)
C18_Witness ==
    /\ activation.entry = RTL_STATE_CLIMB
    /\ activation.advances = 5
    /\ rtl_state = RTL_STATE_LANDED
    /\ ~first_run

(* C19: right after a target computation the navigator permits loitering at *)
(* the setpoint exactly when the state is LOITER.  So, as long as no other  *)
(* component has changed the permission, on_inactive() resets every state   *)
(* but LOITER to NONE, and the state an activation resumes is LOITER.       *)
C19_LoiterPermission ==
    [][ /\ Computes => (can_loiter_at_sp' = (rtl_state' = RTL_STATE_LOITER))
        /\ (Called("on_inactive")
               /\ can_loiter_at_sp = (rtl_state = RTL_STATE_LOITER))
              => rtl_state' = (IF rtl_state = RTL_STATE_LOITER THEN RTL_STATE_LOITER
                               ELSE RTL_STATE_NONE)
        /\ (Called("on_activation") /\ rtl_state # RTL_STATE_NONE
               /\ can_loiter_at_sp = (rtl_state = RTL_STATE_LOITER))
              => rtl_state = RTL_STATE_LOITER ]_vars

(* on_inactive() has kept LOITER, with the permission its target granted. *)
C19_Witness ==
    /\ last_call.hook = "on_inactive"
    /\ rtl_state = RTL_STATE_LOITER
    /\ can_loiter_at_sp
    /\ first_run
    /\ mission_item.nav_cmd = NAV_CMD_LOITER_UNLIMITED

(* C20: the state is not NONE when on_activation() returns, nor when        *)
(* on_active() returns; only on_inactive() takes it to NONE; and every      *)
(* target is computed for one of CLIMB, RETURN, DESCEND, LOITER, LAND,      *)
(* LANDED.                                                                  *)
C20_NoneOnlyByReset ==
    [][ /\ Called("on_activation") => rtl_state' # RTL_STATE_NONE
        /\ Called("on_active") => rtl_state' # RTL_STATE_NONE
        /\ (rtl_state # RTL_STATE_NONE /\ rtl_state' = RTL_STATE_NONE)
              => Called("on_inactive")
        /\ Computes
              => /\ rtl_state' \in RTLStates \ {RTL_STATE_NONE}
                 /\ ItemOfState(rtl_state', mission_item') ]_vars

(* on_inactive() has reset an activation that had got to LAND. *)
C20_Witness ==
    /\ last_call.hook = "on_inactive"
    /\ rtl_state = RTL_STATE_NONE
    /\ mission_item.nav_cmd = NAV_CMD_LAND
    /\ rtl_start_lock

====
